---- MODULE Spec2Model ----
(***************************************************************************)
(* Event-delivery pipeline and tables of faust: Event (reference-counted   *)
(* acknowledgment, scoped ack-on-exit, attached sends), Channel            *)
(* (deliver/decode with decode-error hooks, bounded queue with             *)
(* backpressure, send/publish_message, put/get, clone and iteration),      *)
(* Table (changelog hooks, missing-key policy, window constructors) and    *)
(* the in-memory Store (changelog replay).                                 *)
(*                                                                         *)
(* Sources: src/faust/channels.py, src/faust/tables/table.py,              *)
(* src/faust/stores/memory.py.  The transport consumer, the record's       *)
(* decref, the serializer registry, the attachment buffer, the             *)
(* current-event lookup, the Collection base of Table, the managed         *)
(* dictionary Table inherits from and the windows module live outside the  *)
(* available sources; they are modelled from the specification.            *)
(***************************************************************************)
EXTENDS Integers, Sequences, FiniteSets, TLC

VARIABLES chan, queue, putters, records, acks, ackCalls, held, cur,
          attached, scope, hooklog, vcalls, consumed, pubs,
          calls,
          decoded,                \* what each decode call returned
          qref, parent,           \* queue of each channel, origin of a clone
          tcfg, tdata, changelog, ttl, sensors, tlog,     \* a Table
          store, batches,         \* a Store and the batches applied to it
          window, asked, stamp, ranges    \* a window applied to a timestamp

iterVars == <<qref, parent>>
tableVars == <<tcfg, tdata, changelog, ttl, sensors, tlog>>
storeVars == <<store, batches>>
windowVars == <<window, asked, stamp, ranges>>

\* what the Event and Channel operations of one channel leave alone
otherVars == <<iterVars, tableVars, storeVars, windowVars>>

channelVars == <<chan, queue, putters, records, acks, ackCalls, held, cur,
                 attached, scope, hooklog, vcalls, consumed, pubs,
                 calls, decoded>>

vars == <<channelVars, otherVars>>

---------------------------------------------------------------------------
(* Bounds of the model *)

\* number of raw records the transport hands to deliver
NumRecords == 2
\* largest initial reference count of a raw record
MaxRef == 2
\* ack() calls explored beyond a record's initial reference count
MaxExtraAcks == 1
\* calls the application makes to Channel.send, Channel.put, Channel.decode
MaxCalls == 2
\* capacity of a queue handed to the Channel constructor
QueueCap == 2
\* records and Channel.send calls of the specification of sends
SendRecords == 1
SendCalls == 1
\* clones constructed from a channel
MaxClones == 2
\* get, set and del calls on a Table
MaxTableOps == 3
\* entries of a changelog batch, and batches applied to a Store
MaxBatch == 3
MaxApply == 2
\* largest timestamp a window policy is applied to
MaxStamp == 61

---------------------------------------------------------------------------
(* Values *)

Chans == {"A"}

\* what the application sends and puts
SendKeys == {31}
SendValues == {41}
PutValues == {50}

\* Python's None, for Event.message and for a missing current event
None == 0
NoEvent == [key |-> None, value |-> None, message |-> -1]

\* raw key/value bytes: 0 is malformed, the others decode
RawBytes == {0, 1}

\* maxsize of the queue the queue property creates (channels.py:199)
DefaultMaxSize == 1

\* Channel() without arguments (channels.py:172, 176-181)
DefaultChannel == [is_iterator |-> FALSE, clone_shares_queue |-> TRUE,
                   queue_given |-> FALSE]

\* names of the channels clone constructs, in construction order
CloneNames == <<"B", "C", "D">>

\* queue=None in the constructor's arguments
NoQueue == "None"

---------------------------------------------------------------------------
(* Serializer boundary: loads_key / loads_value raise on malformed bytes   *)
(* (byte string 0) and otherwise return the decoded object.                *)

KeyMalformed(b) == b = 0
ValueMalformed(b) == b = 0

loads_key(b) == 10 + b
loads_value(b) == 20 + b

\* Channel._create_event (channels.py:383-385)
create_event(k, v, m) == [key |-> k, value |-> v, message |-> m]

---------------------------------------------------------------------------
(* Queue of a channel *)

\* Channel.queue property (channels.py:192-203): the queue handed to the
\* constructor, else a fresh one of maxsize 1
MaxSize_given(c) == QueueCap
MaxSize(c) == IF chan[c].queue_given THEN QueueCap ELSE DefaultMaxSize

\* the queue's put suspends while the queue is full
Full(q, c) == Len(q) >= MaxSize(c)

RemoveAt(s, i) == SubSeq(s, 1, i - 1) \o SubSeq(s, i + 1, Len(s))

\* Channel.put legality check (channels.py:388)
PutLegal_conj(c) == chan[c].is_iterator /\ chan[c].clone_shares_queue
PutLegal(c) == chan[c].is_iterator \/ chan[c].clone_shares_queue

---------------------------------------------------------------------------
(* Outbound path.  St is the triple [queue, putters, pubs] threaded        *)
(* through the calls of one handler.                                       *)

NowSt == [queue |-> queue, putters |-> putters, pubs |-> pubs]

\* the queue's put: enqueue, or suspend the caller while the queue is full.
\* pub is the index in pubs of the future a publish resolves afterwards.
QPut(St, c, item, kind, pub) ==
    IF Full(St.queue[c], c)
    THEN [St EXCEPT !.putters[c] =
             Append(@, [kind |-> kind, item |-> item, pub |-> pub])]
    ELSE [St EXCEPT !.queue[c] = Append(@, item)]

\* Channel.as_future_message (channels.py:253-269); prepare_key and
\* prepare_value (channels.py:322-326) return their argument.
\* trigger notes the record whose Event was current when send was called.
PendingMessage(c, k, v, cb, trigger) ==
    [chan |-> c, key |-> k, value |-> v, callback |-> cb, trigger |-> trigger]

\* Channel._finalize_message (channels.py:290-295): resolve the future with
\* RecordMetadata(None, None, None, None), then call the callback if any
Finalize(fut) ==
    [fut EXCEPT !.st = "done",
                !.result = <<None, None, None, None>>,
                !.cbcalls = IF fut.message.callback THEN @ + 1 ELSE @]

\* Channel.publish_message (channels.py:282-288) with Channel.put
\* (channels.py:387-391)
PublishMessage_resolveFirst(St, pm) ==
    LET c == pm.chan
        event == create_event(pm.key, pm.value, None)
        fut == [message |-> pm, st |-> "pending", result |-> <<>>,
                cbcalls |-> 0]
        idx == Len(St.pubs) + 1
    IN  IF ~PutLegal(c)
        THEN [St EXCEPT !.pubs = Append(@, [fut EXCEPT !.st = "error"])]
        ELSE QPut([St EXCEPT !.pubs = Append(@, Finalize(fut))],
                  c, event, "publish", idx)
PublishMessage(St, pm) ==
    LET c == pm.chan
        event == create_event(pm.key, pm.value, None)
        fut == [message |-> pm, st |-> "pending", result |-> <<>>,
                cbcalls |-> 0]
        idx == Len(St.pubs) + 1
    IN  IF ~PutLegal(c)
        THEN [St EXCEPT !.pubs = Append(@, [fut EXCEPT !.st = "error"])]
        ELSE IF Full(St.queue[c], c)
        THEN QPut([St EXCEPT !.pubs = Append(@, fut)], c, event, "publish", idx)
        ELSE [QPut(St, c, event, "publish", idx)
                 EXCEPT !.pubs = Append(@, Finalize(fut))]

\* how a put on channel c ends in the current state
PutOutcome(c) ==
    IF ~PutLegal(c) THEN "usage_error"
    ELSE IF Full(queue[c], c) THEN "suspended" ELSE "enqueued"

---------------------------------------------------------------------------
(* Acknowledgment *)

\* Message.decref: decrement the reference count
decref(rc) == rc - 1

\* Event.ack (channels.py:150): "if not message.refcount"
NoMoreReferences_le(rc) == rc <= 0
NoMoreReferences_always(rc) == TRUE
NoMoreReferences(rc) == rc = 0

\* the attached sends buffered for record r, in attach order
AttachedTo(r) == SelectSeq(attached, LAMBDA a : a.msg = r)
NotAttachedTo(r) == SelectSeq(attached, LAMBDA a : a.msg # r)

RECURSIVE FlushAll(_, _)
FlushAll(St, pend) ==
    IF pend = <<>> THEN St
    ELSE FlushAll(PublishMessage(St, Head(pend).pm), Tail(pend))

\* Event.ack (channels.py:145-151) on an Event of record r.  The transport
\* consumer's ack publishes the sends attached to the record, then
\* acknowledges the record.
AckEffect(r) ==
    LET rc == decref(records[r].refcount)
        St == IF NoMoreReferences(rc) THEN FlushAll(NowSt, AttachedTo(r))
              ELSE NowSt
    IN  /\ records' = [records EXCEPT ![r].refcount = rc]
        /\ ackCalls' = [ackCalls EXCEPT ![r] = @ + 1]
        /\ acks' = IF NoMoreReferences(rc)
                   THEN [acks EXCEPT ![r] = @ + 1] ELSE acks
        /\ attached' = IF NoMoreReferences(rc) THEN NotAttachedTo(r)
                       ELSE attached
        /\ queue' = St.queue
        /\ putters' = St.putters
        /\ pubs' = St.pubs

AckAllowed(e) ==
    /\ e.message # None
    /\ ackCalls[e.message] < records[e.message].refcount0 + MaxExtraAcks

\* await event.ack()
Ack(e) ==
    /\ e \in held
    /\ AckAllowed(e)
    /\ AckEffect(e.message)
    /\ UNCHANGED <<otherVars, decoded>>
    /\ UNCHANGED <<chan, held, cur, scope, hooklog, vcalls, consumed, calls>>

\* Event.__aenter__ (channels.py:156-157)
AEnter(e) ==
    /\ e \in held
    /\ AckAllowed(e)
    /\ scope.st # "body"
    /\ scope' = [st |-> "body", ev |-> e, failed |-> FALSE]
    /\ UNCHANGED <<otherVars, decoded>>
    /\ UNCHANGED <<chan, queue, putters, records, acks, ackCalls, held, cur,
                   attached, hooklog, vcalls, consumed, pubs, calls>>

\* Event.__aexit__ (channels.py:159-163): ack whatever the exception is
ExitAcks_onSuccess(failed) == ~failed
ExitAcks(failed) == TRUE

\* the scoped body has completed, normally or with an exception
AExit(failed) ==
    /\ scope.st = "body"
    /\ scope' = [scope EXCEPT !.st = "exited", !.failed = failed]
    /\ IF ExitAcks(failed)
       THEN AckEffect(scope.ev.message)
       ELSE UNCHANGED <<records, ackCalls, acks, attached, queue, putters, pubs>>
    /\ UNCHANGED <<otherVars, decoded>>
    /\ UNCHANGED <<chan, held, cur, hooklog, vcalls, consumed, calls>>

---------------------------------------------------------------------------
(* Inbound path *)

\* the try/except/else ladder of the deliver closure (channels.py:370-380):
\* key first, value only if the key decoded
DecodeOutcome_valueFirst(kb, vb) ==
    IF ValueMalformed(vb) THEN "value_error"
    ELSE IF KeyMalformed(kb) THEN "key_error" ELSE "event"
DecodeOutcome(kb, vb) ==
    IF KeyMalformed(kb) THEN "key_error"
    ELSE IF ValueMalformed(vb) THEN "value_error" ELSE "event"

\* Channel.on_key_decode_error / on_value_decode_error (channels.py:396-403):
\* log the exception and the record, return
HookCalls(out, r) ==
    IF out = "key_error"
    THEN <<[hook |-> "on_key_decode_error", exc |-> "KeyDecodeError", msg |-> r]>>
    ELSE IF out = "value_error"
    THEN <<[hook |-> "on_value_decode_error", exc |-> "ValueDecodeError",
            msg |-> r]>>
    ELSE <<>>

\* loads_value is called only once loads_key has returned
ValueLoads(out) == IF out = "key_error" THEN 0 ELSE 1

\* deliver builds and enqueues the Event only in the innermost else branch
\* (channels.py:379-380)
ProducesEvent_always(out) == TRUE
ProducesEvent(out) == out = "event"

DeliverSuspended(c) ==
    \E i \in 1..Len(putters[c]) : putters[c][i].kind = "deliver"

\* deliver's enqueue (channels.py:366-369, 380): await the queue's own put,
\* not Channel.put
DeliverEnqueue_viaPut(St, c, ev) ==
    IF PutLegal(c) THEN QPut(St, c, ev, "deliver", 0) ELSE St
DeliverEnqueue_nowait(St, c, ev) ==
    IF Full(St.queue[c], c) THEN St
    ELSE [St EXCEPT !.queue[c] = Append(@, ev)]
DeliverEnqueue(St, c, ev) == QPut(St, c, ev, "deliver", 0)

\* deliver closure (channels.py:365-380) on a record newly received from the
\* transport with key bytes kb, value bytes vb and reference count n
Deliver(c, kb, vb, n) ==
    LET r == Len(records) + 1
        out == DecodeOutcome(kb, vb)
        ev == create_event(loads_key(kb), loads_value(vb), r)
        St == IF ProducesEvent(out) THEN DeliverEnqueue(NowSt, c, ev)
              ELSE NowSt
    IN  /\ Len(records) < NumRecords
        /\ ~DeliverSuspended(c)
        /\ records' = Append(records, [key |-> kb, value |-> vb, chan |-> c,
                                       refcount |-> n, refcount0 |-> n])
        /\ acks' = Append(acks, 0)
        /\ ackCalls' = Append(ackCalls, 0)
        /\ hooklog' = hooklog \o HookCalls(out, r)
        /\ vcalls' = vcalls + ValueLoads(out)
        /\ queue' = St.queue
        /\ putters' = St.putters
        /\ UNCHANGED <<otherVars, decoded>>
        /\ UNCHANGED <<chan, held, cur, attached, scope, consumed, pubs, calls>>

\* the try/except/else ladder of the decode closure (channels.py:340-350),
\* a second copy of the one in deliver
DecodeLadder_keyOnly(kb, vb) ==
    IF KeyMalformed(kb) THEN "key_error" ELSE "event"
DecodeLadder(kb, vb) ==
    IF KeyMalformed(kb) THEN "key_error"
    ELSE IF ValueMalformed(vb) THEN "value_error" ELSE "event"

\* decode returns the Event from the innermost else branch
\* (channels.py:349-350) and falls off the end, returning None, otherwise
DecodeReturn(out, ev) == IF out = "event" THEN ev ELSE NoEvent

\* decode closure (channels.py:339-350) on a record already received
Decode(c, r) ==
    LET out == DecodeLadder(records[r].key, records[r].value)
        ev == create_event(loads_key(records[r].key),
                           loads_value(records[r].value), r)
        ret == DecodeReturn(out, ev)
    IN  /\ Len(calls) < MaxCalls
        /\ calls' = Append(calls, [op |-> "decode", chan |-> c,
                                   force |-> FALSE, event |-> cur.message,
                                   out |-> out])
        /\ hooklog' = hooklog \o HookCalls(out, r)
        /\ vcalls' = vcalls + ValueLoads(out)
        /\ held' = IF ret # NoEvent THEN held \cup {ret} ELSE held
        /\ decoded' = Append(decoded, [msg |-> r, ret |-> ret])
        /\ UNCHANGED otherVars
        /\ UNCHANGED <<chan, queue, putters, records, acks, ackCalls, cur,
                       attached, scope, consumed, pubs>>

\* a call suspended in the queue's put resumes once the queue has room
PutResume(c, i) ==
    LET p == putters[c][i]
    IN  /\ ~Full(queue[c], c)
        /\ queue' = [queue EXCEPT ![c] = Append(@, p.item)]
        /\ putters' = [putters EXCEPT ![c] = RemoveAt(@, i)]
        /\ pubs' = IF p.kind = "publish"
                   THEN [pubs EXCEPT ![p.pub] = Finalize(@)] ELSE pubs
        /\ UNCHANGED <<otherVars, decoded>>
        /\ UNCHANGED <<chan, records, acks, ackCalls, held, cur, attached,
                       scope, hooklog, vcalls, consumed, calls>>

\* Channel.get (channels.py:393-394); suspends while the queue is empty
QGet(q) == Tail(q)

Get(c) ==
    /\ queue[c] # <<>>
    /\ queue' = [queue EXCEPT ![c] = QGet(@)]
    /\ held' = held \cup {Head(queue[c])}
    /\ consumed' = [consumed EXCEPT ![c] = Append(@, Head(queue[c]))]
    /\ UNCHANGED <<otherVars, decoded>>
    /\ UNCHANGED <<chan, putters, records, acks, ackCalls, cur, attached,
                   scope, hooklog, vcalls, pubs, calls>>

\* Channel.put (channels.py:387-391)
Put(c, v) ==
    LET item == create_event(None, v, None)
        St == IF PutLegal(c) THEN QPut(NowSt, c, item, "put", 0) ELSE NowSt
    IN  /\ Len(calls) < MaxCalls
        /\ calls' = Append(calls, [op |-> "put", chan |-> c, force |-> FALSE,
                                   event |-> cur.message,
                                   out |-> PutOutcome(c)])
        /\ queue' = St.queue
        /\ putters' = St.putters
        /\ UNCHANGED <<otherVars, decoded>>
        /\ UNCHANGED <<chan, records, acks, ackCalls, held, cur, attached,
                       scope, hooklog, vcalls, consumed, pubs>>

---------------------------------------------------------------------------
(* Cloning and iteration.  qref[c] names the queue channel c refers to: a  *)
(* queue is named after the channel whose queue property created it.       *)

\* the clone about to be constructed
NumClones == Cardinality(DOMAIN parent)
NewClone == CloneNames[NumClones + 1]

\* Channel._clone_args (channels.py:217): the 'queue' argument of the clone
CloneQueue_fresh(c) == NoQueue
CloneQueue(c) == IF chan[c].clone_shares_queue THEN qref[c] ELSE NoQueue

\* Channel.__init__ and the queue property (channels.py:187, 192-203): the
\* queue handed in, else the channel's own fresh queue
QueueRef(k, given) == IF given # NoQueue THEN given ELSE k

\* Channel.clone (channels.py:205-209): construct channel k from channel c
Clone(c, k, is_iterator) ==
    LET given == CloneQueue(c)
        q == QueueRef(k, given)
    IN  /\ chan' = chan @@ (k :> [is_iterator |-> is_iterator,
                                  clone_shares_queue |->
                                      chan[c].clone_shares_queue,
                                  queue_given |-> given # NoQueue])
        /\ qref' = qref @@ (k :> q)
        /\ parent' = parent @@ (k :> c)
        /\ queue' = IF q = k THEN queue @@ (k :> <<>>) ELSE queue
        /\ putters' = IF q = k THEN putters @@ (k :> <<>>) ELSE putters
        /\ consumed' = consumed @@ (k :> <<>>)

\* Channel.__aiter__ (channels.py:405-406)
AIter(c) ==
    LET it == IF chan[c].is_iterator THEN c ELSE NewClone
    IN  /\ Len(calls) < MaxCalls
        /\ chan[c].is_iterator \/ NumClones < MaxClones
        /\ calls' = Append(calls, [op |-> "aiter", chan |-> c,
                                   force |-> FALSE, event |-> cur.message,
                                   out |-> it])
        /\ IF chan[c].is_iterator
           THEN UNCHANGED <<chan, queue, putters, consumed, iterVars>>
           ELSE Clone(c, it, TRUE)
        /\ UNCHANGED <<tableVars, storeVars, windowVars, decoded>>
        /\ UNCHANGED <<records, acks, ackCalls, held, cur, attached, scope,
                       hooklog, vcalls, pubs>>

\* Channel.__anext__ (channels.py:409): "if not self.is_iterator: raise"
AnextLegal_always(c) == TRUE
AnextLegal(c) == chan[c].is_iterator

\* Channel.__anext__ (channels.py:408-411); the queue's get suspends while
\* the queue is empty
ANext(c) ==
    LET q == qref[c]
    IN  /\ Len(calls) < MaxCalls
        /\ AnextLegal(c) => queue[q] # <<>>
        /\ calls' = Append(calls, [op |-> "anext", chan |-> c,
                                   force |-> FALSE, event |-> cur.message,
                                   out |-> IF AnextLegal(c) THEN "event"
                                           ELSE "usage_error"])
        /\ IF AnextLegal(c)
           THEN /\ queue' = [queue EXCEPT ![q] = QGet(@)]
                /\ held' = held \cup {Head(queue[q])}
                /\ consumed' = [consumed EXCEPT ![c] = Append(@, Head(queue[q]))]
           ELSE UNCHANGED <<queue, held, consumed>>
        /\ UNCHANGED <<otherVars, decoded>>
        /\ UNCHANGED <<chan, putters, records, acks, ackCalls, cur, attached,
                       scope, hooklog, vcalls, pubs>>

---------------------------------------------------------------------------
(* Processing context and Channel.send *)

\* the stream starts processing an Event it holds: current_event() is e
Process(e) ==
    /\ e \in held
    /\ e.message # None
    /\ cur = NoEvent
    /\ cur' = e
    /\ UNCHANGED <<otherVars, decoded>>
    /\ UNCHANGED <<chan, queue, putters, records, acks, ackCalls, held,
                   attached, scope, hooklog, vcalls, consumed, pubs, calls>>

\* the stream is done with the Event: no current event
EndProcess ==
    /\ cur # NoEvent
    /\ cur' = NoEvent
    /\ UNCHANGED <<otherVars, decoded>>
    /\ UNCHANGED <<chan, queue, putters, records, acks, ackCalls, held,
                   attached, scope, hooklog, vcalls, consumed, pubs, calls>>

\* Channel.send (channels.py:235-237): attach unless forced or no event
ShouldAttach_ignoreForce(force, ev) == ev # NoEvent
ShouldAttach(force, ev) == ~force /\ ev # NoEvent

\* Event._attach (channels.py:137-138): the send is buffered under the
\* Event's own record
AttachMessage_none(ev) == None
AttachMessage(ev) == ev.message

\* Channel.send (channels.py:225-251)
Send(c, k, v, cb, force) ==
    LET att == ShouldAttach(force, cur)
        pm == PendingMessage(c, k, v, cb, IF att THEN cur.message ELSE None)
        St == IF att THEN NowSt ELSE PublishMessage(NowSt, pm)
    IN  /\ Len(calls) < MaxCalls
        /\ calls' = Append(calls,
                           [op |-> "send", chan |-> c, force |-> force,
                            event |-> cur.message,
                            out |-> IF att THEN "attached" ELSE PutOutcome(c)])
        /\ attached' = IF att
                       THEN Append(attached,
                                   [msg |-> AttachMessage(cur), pm |-> pm])
                       ELSE attached
        /\ queue' = St.queue
        /\ putters' = St.putters
        /\ pubs' = St.pubs
        /\ UNCHANGED <<otherVars, decoded>>
        /\ UNCHANGED <<chan, records, acks, ackCalls, held, cur, scope,
                       hooklog, vcalls, consumed>>

---------------------------------------------------------------------------
(* Mappings: Python dictionaries as functions over the keys they hold *)

\* a mapping without keys
EmptyMap == [x \in {} |-> x]

\* d[k] = v
Assign(d, k, v) == [x \in DOMAIN d \cup {k} |-> IF x = k THEN v ELSE d[x]]

\* del d[k]
Remove(d, k) == [x \in DOMAIN d \ {k} |-> d[x]]

---------------------------------------------------------------------------
(* Table.  T is the record [data, changelog, ttl, sensors] threaded through *)
(* the calls of one handler.                                               *)

\* keys and values the application stores
TKeys == {1, 2}
TValues == {1, 2, 3}

\* what the default factory constructs
DefaultValue == 9

\* a Table with or without a default factory, with or without a key TTL
TableConfig == [default : BOOLEAN, ttl : BOOLEAN]
PlainTable == [default |-> FALSE, ttl |-> FALSE]

\* the changelog carries serialized keys and values; a deletion carries no
\* value.  to_key and to_value are the conversions recovery hands to the
\* Store.
dumps_key(k) == 100 + k
dumps_value(v) == IF v = None THEN None ELSE 200 + v
to_key(raw) == raw - 100
to_value(raw) == IF raw = None THEN None ELSE raw - 200

NowTable == [data |-> tdata, changelog |-> changelog, ttl |-> ttl,
             sensors |-> sensors]

\* Collection._send_changelog: append the entry to the changelog.  visible
\* notes the mapping the table shows at the moment of the append.
send_changelog(T, k, v) ==
    [T EXCEPT !.changelog = Append(@, [key |-> dumps_key(k),
                                       value |-> dumps_value(v),
                                       visible |-> T.data])]

\* Collection._maybe_set_key_ttl / _maybe_del_key_ttl: the deadline of a key
\* counts from the changelog entry of its last set
maybe_set_key_ttl(T, k) ==
    IF tcfg.ttl THEN [T EXCEPT !.ttl = Assign(@, k, Len(T.changelog))] ELSE T
maybe_del_key_ttl(T, k) == [T EXCEPT !.ttl = Remove(@, k)]

\* Collection._sensor_on_get / _sensor_on_set / _sensor_on_del
sensor_on(T, hook, k) ==
    [T EXCEPT !.sensors = Append(@, [hook |-> hook, key |-> k])]

\* Table.on_key_get (table.py:55-56)
on_key_get(T, k) == sensor_on(T, "on_get", k)

\* Table.on_key_set (table.py:58-61)
on_key_set_noChangelog(T, k, v) ==
    sensor_on(maybe_set_key_ttl(T, k), "on_set", k)
on_key_set(T, k, v) ==
    sensor_on(maybe_set_key_ttl(send_changelog(T, k, v), k), "on_set", k)

\* Table.on_key_del (table.py:63-66)
on_key_del(T, k) ==
    sensor_on(maybe_del_key_ttl(send_changelog(T, k, None), k), "on_del", k)

\* Table.__missing__ (table.py:38-41)
Missing_raises(k) == [raised |-> TRUE, ret |-> None]
Missing(k) ==
    IF tcfg.default THEN [raised |-> FALSE, ret |-> DefaultValue]
    ELSE [raised |-> TRUE, ret |-> None]

\* the dictionary lookup under Table.__getitem__
Lookup(data, k) ==
    IF k \in DOMAIN data THEN [raised |-> FALSE, ret |-> data[k]]
    ELSE Missing(k)

TableCall(op, k, v, res) ==
    [op |-> op, key |-> k, value |-> v, raised |-> res.raised,
     ret |-> res.ret]

Returned == [raised |-> FALSE, ret |-> None]
KeyError == [raised |-> TRUE, ret |-> None]

\* table[k] (Table._get_key, table.py:46-47): the managed dictionary calls
\* on_key_get, then looks the key up
TGet(k) ==
    LET T == on_key_get(NowTable, k)
    IN  /\ Len(tlog) < MaxTableOps
        /\ tlog' = Append(tlog, TableCall("get", k, None, Lookup(T.data, k)))
        /\ tdata' = T.data
        /\ changelog' = T.changelog
        /\ ttl' = T.ttl
        /\ sensors' = T.sensors
        /\ UNCHANGED <<channelVars, iterVars, storeVars, windowVars, tcfg>>

\* table[k] = v (Table._set_key, table.py:49-50): the managed dictionary
\* calls on_key_set, then stores the value
TSet(k, v) ==
    LET T == on_key_set(NowTable, k, v)
    IN  /\ Len(tlog) < MaxTableOps
        /\ tlog' = Append(tlog, TableCall("set", k, v, Returned))
        /\ tdata' = Assign(T.data, k, v)
        /\ changelog' = T.changelog
        /\ ttl' = T.ttl
        /\ sensors' = T.sensors
        /\ UNCHANGED <<channelVars, iterVars, storeVars, windowVars, tcfg>>

\* del table[k] (Table._del_key, table.py:52-53): the managed dictionary
\* calls on_key_del, then deletes the key, which raises when it is missing
TDel(k) ==
    LET T == on_key_del(NowTable, k)
    IN  /\ Len(tlog) < MaxTableOps
        /\ tlog' = Append(tlog, TableCall("del", k, None,
                                          IF k \in DOMAIN T.data
                                          THEN Returned ELSE KeyError))
        /\ tdata' = Remove(T.data, k)
        /\ changelog' = T.changelog
        /\ ttl' = T.ttl
        /\ sensors' = T.sensors
        /\ UNCHANGED <<channelVars, iterVars, storeVars, windowVars, tcfg>>

---------------------------------------------------------------------------
(* Store (in memory) *)

\* Store.apply_changelog_batch (memory.py:17-26): dict.update with the
\* converted (key, value) pairs, in batch order
RECURSIVE apply_changelog_batch_firstWins(_, _)
apply_changelog_batch_firstWins(data, batch) ==
    IF batch = <<>> THEN data
    ELSE Assign(apply_changelog_batch_firstWins(data, Tail(batch)),
                to_key(Head(batch).key), to_value(Head(batch).value))
RECURSIVE apply_changelog_batch(_, _)
apply_changelog_batch(data, batch) ==
    IF batch = <<>> THEN data
    ELSE apply_changelog_batch(Assign(data, to_key(Head(batch).key),
                                      to_value(Head(batch).value)),
                               Tail(batch))

\* the changelog entries a batch is made of
BatchEntries ==
    [key : {dumps_key(k) : k \in TKeys}, value : {dumps_value(v) : v \in TValues}]

\* the next changelog entry is read into the batch being assembled
BatchAdd(e) ==
    /\ Len(batches.pending) < MaxBatch
    /\ batches' = [batches EXCEPT !.pending = Append(@, e), !.fresh = TRUE]
    /\ UNCHANGED <<channelVars, iterVars, tableVars, windowVars, store>>

\* a new batch is started
BatchNew ==
    /\ batches.pending # <<>>
    /\ batches' = [batches EXCEPT !.pending = <<>>, !.fresh = TRUE]
    /\ UNCHANGED <<channelVars, iterVars, tableVars, windowVars, store>>

\* store.apply_changelog_batch(batch, to_key, to_value) on the assembled
\* batch; the batch stays at hand and may be applied again
StoreApply ==
    /\ batches.applied < MaxApply
    /\ store' = apply_changelog_batch(store, batches.pending)
    /\ batches' = [batches EXCEPT !.applied = @ + 1, !.fresh = FALSE]
    /\ UNCHANGED <<channelVars, iterVars, tableVars, windowVars>>

\* Store._clear (memory.py:14-15)
StoreClear ==
    /\ store # EmptyMap
    /\ store' = EmptyMap
    /\ batches' = [batches EXCEPT !.fresh = TRUE]
    /\ UNCHANGED <<channelVars, iterVars, tableVars, windowVars>>

---------------------------------------------------------------------------
(* Window policies.  A bucket of a hopping window is named by its start, a *)
(* bucket of a tumbling window by its number.                              *)

WindowSizes == {2, 3, 4, 60}
WindowSteps == {1, 2, 20}
Expiries == {7, 90}

\* a Table before using_window
NoWindow == [kind |-> "none", size |-> None, step |-> None, expires |-> None]

\* windows.HoppingWindow(size, step, expires)
HoppingWindow(size, step, expires) ==
    [kind |-> "hopping", size |-> size, step |-> step, expires |-> expires]

\* windows.TumblingWindow(size, expires)
TumblingWindow(size, expires) ==
    [kind |-> "tumbling", size |-> size, step |-> size, expires |-> expires]

\* the buckets of a hopping window that hold timestamp t: from the last
\* step-aligned start at or before t backwards, while the bucket reaches t
HoppingBuckets(w, t) ==
    LET last == (t \div w.step) * w.step
    IN  {last - i * w.step : i \in {j \in 0..(w.size \div w.step) :
                                       t < last - j * w.step + w.size}}

\* the bucket of a tumbling window that holds timestamp t
TumblingBuckets(w, t) == {t \div w.size}

WindowBuckets(w, t) ==
    IF w.kind = "hopping" THEN HoppingBuckets(w, t) ELSE TumblingBuckets(w, t)

\* Table.hopping (table.py:32): the window it constructs
hopping_swapped(size, step, expires) == HoppingWindow(step, size, expires)
hopping(size, step, expires) == HoppingWindow(size, step, expires)

\* Table.tumbling (table.py:36): the window it constructs
tumbling_swapped(size, expires) == TumblingWindow(expires, size)
tumbling(size, expires) == TumblingWindow(size, expires)

\* Table.using_window (table.py:21-28): the table keeps the window; the
\* changelog topic it derives retains for window.expires
using_window(w) ==
    /\ window = NoWindow
    /\ window' = w
    /\ UNCHANGED <<stamp, ranges>>
    /\ UNCHANGED <<channelVars, iterVars, tableVars, storeVars>>

\* table.hopping(size, step, expires); asked notes the call's arguments
TableHopping(size, step, expires) ==
    /\ step <= size
    /\ asked' = [kind |-> "hopping", size |-> size, step |-> step,
                 expires |-> expires]
    /\ using_window(hopping(size, step, expires))

\* table.tumbling(size, expires)
TableTumbling(size, expires) ==
    /\ asked' = [kind |-> "tumbling", size |-> size, step |-> size,
                 expires |-> expires]
    /\ using_window(tumbling(size, expires))

\* the table's window maps timestamp t to its buckets
WindowRanges(t) ==
    /\ window # NoWindow
    /\ stamp = <<>>
    /\ stamp' = <<t>>
    /\ ranges' = WindowBuckets(window, t)
    /\ UNCHANGED <<window, asked>>
    /\ UNCHANGED <<channelVars, iterVars, tableVars, storeVars>>

---------------------------------------------------------------------------
(* Specifications *)

ChanConfig == [is_iterator : BOOLEAN, clone_shares_queue : BOOLEAN,
               queue_given : BOOLEAN]

Init ==
    /\ chan \in [Chans -> ChanConfig]
    /\ queue = [c \in Chans |-> <<>>]
    /\ putters = [c \in Chans |-> <<>>]
    /\ records = <<>>
    /\ acks = <<>>
    /\ ackCalls = <<>>
    /\ held = {}
    /\ cur = NoEvent
    /\ attached = <<>>
    /\ scope = [st |-> "out", ev |-> NoEvent, failed |-> FALSE]
    /\ hooklog = <<>>
    /\ vcalls = 0
    /\ consumed = [c \in Chans |-> <<>>]
    /\ pubs = <<>>
    /\ calls = <<>>
    /\ decoded = <<>>
    /\ qref = [c \in Chans |-> c]
    /\ parent = EmptyMap
    /\ tcfg \in TableConfig
    /\ tdata = EmptyMap
    /\ changelog = <<>>
    /\ ttl = EmptyMap
    /\ sensors = <<>>
    /\ tlog = <<>>
    /\ store = EmptyMap
    /\ batches = [pending |-> <<>>, fresh |-> TRUE, applied |-> 0]
    /\ window = NoWindow
    /\ asked = NoWindow
    /\ stamp = <<>>
    /\ ranges = {}

\* channels of every configuration next to a plain table
InitChannels == Init /\ tcfg = PlainTable

\* a table of every configuration next to a default channel
InitTables == Init /\ chan = [c \in Chans |-> DefaultChannel]

\* the whole system
Next ==
    \/ \E c \in Chans, kb \in RawBytes, vb \in RawBytes, n \in 1..MaxRef :
          Deliver(c, kb, vb, n)
    \/ \E c \in Chans, r \in 1..Len(records) : Decode(c, r)
    \/ \E c \in Chans : \E i \in 1..Len(putters[c]) : PutResume(c, i)
    \/ \E c \in Chans : Get(c)
    \/ \E c \in Chans, v \in PutValues : Put(c, v)
    \/ \E e \in held : Process(e)
    \/ EndProcess
    \/ \E c \in Chans, k \in SendKeys, v \in SendValues,
          cb \in BOOLEAN, force \in BOOLEAN :
          Send(c, k, v, cb, force)
    \/ \E e \in held : Ack(e)
    \/ \E e \in held : AEnter(e)
    \/ \E failed \in BOOLEAN : AExit(failed)
    \/ \E c \in DOMAIN chan : AIter(c)
    \/ \E c \in DOMAIN chan : ANext(c)
    \/ \E k \in TKeys : TGet(k)
    \/ \E k \in TKeys, v \in TValues : TSet(k, v)
    \/ \E k \in TKeys : TDel(k)
    \/ \E e \in BatchEntries : BatchAdd(e)
    \/ BatchNew
    \/ StoreApply
    \/ StoreClear
    \/ \E size \in WindowSizes, step \in WindowSteps, expires \in Expiries :
          TableHopping(size, step, expires)
    \/ \E size \in WindowSizes, expires \in Expiries :
          TableTumbling(size, expires)
    \/ \E t \in 0..MaxStamp : WindowRanges(t)

Spec == Init /\ [][Next]_vars

\* Acknowledgment: well-formed records of every reference count are
\* delivered, consumed, and acknowledged directly or by scoped use
NextAck ==
    \/ \E c \in Chans, n \in 1..MaxRef : Deliver(c, 1, 1, n)
    \/ \E c \in Chans : \E i \in 1..Len(putters[c]) : PutResume(c, i)
    \/ \E c \in Chans : Get(c)
    \/ \E e \in held : Ack(e)
    \/ \E e \in held : AEnter(e)
    \/ \E failed \in BOOLEAN : AExit(failed)

SpecAck == InitChannels /\ [][NextAck]_vars

\* Sends: Events are processed, sends are attached or published, records
\* are acknowledged
NextSend ==
    \/ /\ Len(records) < SendRecords
       /\ \E c \in Chans, n \in 1..MaxRef : Deliver(c, 1, 1, n)
    \/ \E c \in Chans : \E i \in 1..Len(putters[c]) : PutResume(c, i)
    \/ \E c \in Chans : Get(c)
    \/ \E e \in held : Process(e)
    \/ EndProcess
    \/ /\ Len(calls) < SendCalls
       /\ \E c \in Chans, k \in SendKeys, v \in SendValues, force \in BOOLEAN :
             Send(c, k, v, FALSE, force)
    \/ \E e \in held : Ack(e)

SpecSend == InitChannels /\ [][NextSend]_vars

\* Channel: records of every shape are delivered and decoded, the queue is
\* read and written directly
NextChannel ==
    \/ \E c \in Chans, kb \in RawBytes, vb \in RawBytes :
          Deliver(c, kb, vb, MaxRef)
    \/ \E c \in Chans, r \in 1..Len(records) : Decode(c, r)
    \/ \E c \in Chans : \E i \in 1..Len(putters[c]) : PutResume(c, i)
    \/ \E c \in Chans : Get(c)
    \/ \E c \in Chans, v \in PutValues : Put(c, v)

SpecChannel == InitChannels /\ [][NextChannel]_vars

\* Publishing: forced sends with and without a callback, the queue is read
NextPublish ==
    \/ \E c \in Chans, k \in SendKeys, v \in SendValues, cb \in BOOLEAN :
          Send(c, k, v, cb, TRUE)
    \/ \E c \in Chans : \E i \in 1..Len(putters[c]) : PutResume(c, i)
    \/ \E c \in Chans : Get(c)
    \/ \E c \in Chans, v \in PutValues : Put(c, v)

SpecPublish == InitChannels /\ [][NextPublish]_vars

\* Iteration: records are delivered on a channel, the channel is cloned
\* into iterators, channels are advanced
NextIter ==
    \/ \E c \in Chans : Deliver(c, 1, 1, MaxRef)
    \/ \E c \in Chans : \E i \in 1..Len(putters[c]) : PutResume(c, i)
    \/ \E c \in DOMAIN chan : AIter(c)
    \/ \E c \in DOMAIN chan : ANext(c)

SpecIter == InitChannels /\ [][NextIter]_vars

\* Tables: keys are read, set and deleted
NextTable ==
    \/ \E k \in TKeys : TGet(k)
    \/ \E k \in TKeys, v \in TValues : TSet(k, v)
    \/ \E k \in TKeys : TDel(k)

SpecTable == InitTables /\ [][NextTable]_vars

\* a Store next to a default channel and a plain table
InitStores == InitTables /\ tcfg = PlainTable

\* Stores: changelog batches are assembled, applied and applied again
NextStore ==
    \/ \E e \in BatchEntries : BatchAdd(e)
    \/ BatchNew
    \/ StoreApply
    \/ StoreClear

SpecStore == InitStores /\ [][NextStore]_vars

\* Windows: a table is given a window, the window is applied to a timestamp
NextWindow ==
    \/ \E size \in WindowSizes, step \in WindowSteps, expires \in Expiries :
          TableHopping(size, step, expires)
    \/ \E size \in WindowSizes, expires \in Expiries :
          TableTumbling(size, expires)
    \/ \E t \in 0..MaxStamp : WindowRanges(t)

SpecWindow == InitStores /\ [][NextWindow]_vars

---------------------------------------------------------------------------
(* Properties *)

Recs == 1..Len(records)

\* C1: for a record of reference count N, none of the first N-1 ack()
\* calls on its Events issues a transport acknowledgment, and the N-th
\* issues it, once.
C1_NthAckAcknowledges ==
    \A r \in Recs :
        /\ ackCalls[r] < records[r].refcount0 => acks[r] = 0
        /\ ackCalls[r] = records[r].refcount0 => acks[r] = 1

C1_Witness ==
    \E r \in Recs : /\ records[r].refcount0 >= 2
                    /\ ackCalls[r] = records[r].refcount0
                    /\ acks[r] = 1

\* C2: once a record's reference count has reached zero and the record is
\* acknowledged, no further step (no further ack() call) issues another
\* transport acknowledgment for it.
C2_NoDoubleAck ==
    [][\A r \in Recs :
          (records[r].refcount <= 0 /\ acks[r] >= 1) => acks'[r] = acks[r]]_vars

C2_Witness ==
    \E r \in Recs : ackCalls[r] > records[r].refcount0 /\ acks[r] = 1

\* C3: leaving the scope of an Event calls ack() on it exactly once,
\* whether the body completed or failed; entering the scope calls no ack().
C3_ExitAcksOnce ==
    [][/\ (scope.st = "body" /\ scope'.st = "exited") =>
            LET r == scope.ev.message
            IN  /\ ackCalls'[r] = ackCalls[r] + 1
                /\ records'[r].refcount = records[r].refcount - 1
                /\ \A q \in Recs \ {r} : ackCalls'[q] = ackCalls[q]
       /\ (scope.st # "body" /\ scope'.st = "body") =>
            /\ ackCalls' = ackCalls
            /\ records' = records
            /\ acks' = acks]_vars

C3_Witness ==
    /\ scope.st = "exited"
    /\ scope.failed
    /\ ackCalls[scope.ev.message] >= 1

\* C4: a send is attached to the current Event exactly when force is false
\* and there is a current Event, and then nothing reaches the queue; in
\* every other case publish_message is called at once on the target channel.
C4_AttachOrPublish ==
    [][(Len(calls') = Len(calls) + 1 /\ calls'[Len(calls')].op = "send") =>
          LET call == calls'[Len(calls')]
              att == Len(attached') = Len(attached) + 1
          IN  /\ att <=> (~call.force /\ cur # NoEvent)
              /\ att => /\ queue' = queue
                        /\ putters' = putters
                        /\ pubs' = pubs
                        /\ attached'[Len(attached')].pm.chan = call.chan
              /\ ~att => /\ attached' = attached
                         /\ Len(pubs') = Len(pubs) + 1
                         /\ pubs'[Len(pubs')].message.chan = call.chan]_vars

C4_Witness ==
    /\ attached = <<>>
    /\ \E i \in 1..Len(calls) : /\ calls[i].op = "send"
                                /\ calls[i].force
                                /\ calls[i].event # NoEvent.message
                                /\ calls[i].out # "attached"

TriggeredAttached(r) ==
    {i \in 1..Len(attached) : attached[i].pm.trigger = r}
TriggeredPubs(r) ==
    {i \in 1..Len(pubs) : pubs[i].message.trigger = r}

DeliverStep == Len(records') = Len(records) + 1

KeyHookCall(r) ==
    [hook |-> "on_key_decode_error", exc |-> "KeyDecodeError", msg |-> r]
ValueHookCall(r) ==
    [hook |-> "on_value_decode_error", exc |-> "ValueDecodeError", msg |-> r]

DeliverPutter(ev) == [kind |-> "deliver", item |-> ev, pub |-> 0]

\* C6: a deliver whose key fails to decode calls the key-error hook once
\* with the exception and the record, does not call the value deserializer,
\* enqueues nothing and returns; a deliver whose key decodes and whose value
\* fails calls the value-error hook once in the same way; a deliver of a
\* well-formed record, also after such failures, enqueues its Event (or
\* waits at the queue's put with it).
C6_DecodeErrorHooks ==
    [][DeliverStep =>
          LET r == Len(records')
              rec == records'[r]
              c == rec.chan
              ev == create_event(loads_key(rec.key), loads_value(rec.value), r)
          IN  /\ KeyMalformed(rec.key) =>
                    /\ hooklog' = Append(hooklog, KeyHookCall(r))
                    /\ vcalls' = vcalls
                    /\ queue' = queue
                    /\ putters' = putters
              /\ (~KeyMalformed(rec.key) /\ ValueMalformed(rec.value)) =>
                    /\ hooklog' = Append(hooklog, ValueHookCall(r))
                    /\ vcalls' = vcalls + 1
                    /\ queue' = queue
                    /\ putters' = putters
              /\ (~KeyMalformed(rec.key) /\ ~ValueMalformed(rec.value)) =>
                    /\ hooklog' = hooklog
                    /\ \/ /\ queue'[c] = Append(queue[c], ev)
                          /\ putters' = putters
                       \/ /\ Full(queue[c], c)
                          /\ queue' = queue
                          /\ putters'[c] = Append(putters[c], DeliverPutter(ev))
         ]_vars

C6_Witness ==
    /\ hooklog # <<>>
    /\ \E c \in Chans : \E i \in 1..Len(queue[c]) :
          /\ queue[c][i].message # None
          /\ queue[c][i].message > hooklog[1].msg

\* C7: a deliver or decode call that ends in a decode failure leaves every
\* reference count as it was, issues no transport acknowledgment and leaves
\* the queue as it was.
C7_DecodeFailureFrame ==
    [][hooklog' # hooklog =>
          /\ queue' = queue
          /\ putters' = putters
          /\ consumed' = consumed
          /\ \A r \in Recs : /\ records'[r] = records[r]
                             /\ acks'[r] = acks[r]
          /\ \A r \in 1..Len(records') :
                r \notin Recs => /\ records'[r].refcount = records'[r].refcount0
                                 /\ acks'[r] = 0]_vars

C7_Witness ==
    /\ \E i \in 1..Len(calls) :
          /\ calls[i].op = "decode"
          /\ calls[i].out \in {"key_error", "value_error"}
    /\ \E c \in Chans : queue[c] # <<>>
    /\ Len(hooklog) >= 2

\* the Events of the well-formed records delivered to channel c, in
\* delivery order
RECURSIVE DeliveredFrom(_, _)
DeliveredFrom(c, r) ==
    IF r > Len(records) THEN <<>>
    ELSE (IF /\ records[r].chan = c
             /\ ~KeyMalformed(records[r].key)
             /\ ~ValueMalformed(records[r].value)
          THEN <<create_event(loads_key(records[r].key),
                              loads_value(records[r].value), r)>>
          ELSE <<>>) \o DeliveredFrom(c, r + 1)

IsRecordEvent(e) == e.message # None

\* what the consumer of c has taken, then what the queue holds, then what
\* waits at the queue's put
InFlight(c) ==
    consumed[c] \o queue[c] \o [i \in 1..Len(putters[c]) |-> putters[c][i].item]

C9_DefaultQueueBackpressure ==
    [][\A c \in Chans :
          ~chan[c].queue_given =>
              /\ Len(queue[c]) <= 1
              /\ Len(queue'[c]) <= 1
              /\ (/\ DeliverStep
                  /\ records'[Len(records')].chan = c
                  /\ ~KeyMalformed(records'[Len(records')].key)
                  /\ ~ValueMalformed(records'[Len(records')].value)
                  /\ Len(queue[c]) = 1) =>
                     /\ queue'[c] = queue[c]
                     /\ DeliverSuspended(c)'
              /\ (DeliverSuspended(c) /\ ~DeliverSuspended(c)') =>
                     /\ queue[c] = <<>>
                     /\ Len(queue'[c]) = 1
                     /\ IsRecordEvent(queue'[c][1])]_vars

C9_Witness ==
    \E c \in Chans : /\ ~chan[c].queue_given
                     /\ DeliverSuspended(c)
                     /\ Len(queue[c]) = 1
                     /\ IsRecordEvent(queue[c][1])

\* C10: put signals a usage error and enqueues nothing exactly when the
\* channel is neither in iterator form nor sharing its queue; otherwise it
\* enqueues the value (waiting at the queue's put while the queue is full).
C10_PutLegality ==
    [][(Len(calls') = Len(calls) + 1 /\ calls'[Len(calls')].op = "put") =>
          LET call == calls'[Len(calls')]
              c == call.chan
          IN  IF ~chan[c].is_iterator /\ ~chan[c].clone_shares_queue
              THEN /\ call.out = "usage_error"
                   /\ queue' = queue
                   /\ putters' = putters
              ELSE /\ call.out # "usage_error"
                   /\ \E v \in PutValues :
                         LET item == create_event(None, v, None)
                         IN  \/ /\ queue'[c] = Append(queue[c], item)
                                /\ putters' = putters
                             \/ /\ Full(queue[c], c)
                                /\ queue' = queue
                                /\ putters'[c] =
                                      Append(putters[c],
                                             [kind |-> "put", item |-> item,
                                              pub |-> 0])]_vars

C10_Witness ==
    /\ \E i \in 1..Len(calls) :
          /\ calls[i].op = "put"
          /\ calls[i].out = "usage_error"
          /\ ~chan[calls[i].chan].is_iterator
          /\ ~chan[calls[i].chan].clone_shares_queue
    /\ \A c \in Chans : queue[c] = <<>> /\ putters[c] = <<>>

\* the call a step makes, when the step is a call of operation op
CallStep(op) ==
    /\ Len(calls') = Len(calls) + 1
    /\ calls'[Len(calls')].op = op

LastCall == calls'[Len(calls')]

\* C11: advancing a channel that is not in iterator form signals a usage
\* error and dequeues nothing, whatever its queue holds; advancing a channel
\* in iterator form returns only once its queue holds an Event, and returns
\* the Event at the head of the queue, which it dequeues.
C11_AnextUsage ==
    [][CallStep("anext") =>
         LET c == LastCall.chan
             q == qref[c]
         IN  IF ~chan[c].is_iterator
             THEN /\ LastCall.out = "usage_error"
                  /\ queue' = queue
                  /\ putters' = putters
                  /\ held' = held
                  /\ consumed' = consumed
             ELSE /\ LastCall.out = "event"
                  /\ queue[q] # <<>>
                  /\ queue'[q] = Tail(queue[q])
                  /\ Head(queue[q]) \in held'
                  /\ consumed'[c] = Append(consumed[c], Head(queue[q]))]_vars

\* a channel not in iterator form was advanced while its queue held an
\* Event, which is still there
C11_Witness ==
    \E i \in 1..Len(calls) :
        /\ calls[i].op = "anext"
        /\ calls[i].out = "usage_error"
        /\ ~chan[calls[i].chan].is_iterator
        /\ queue[qref[calls[i].chan]] # <<>>
        /\ \A c \in DOMAIN consumed : consumed[c] = <<>>

Clones == DOMAIN parent

\* the Events channel c has received that were delivered on channel o
ReceivedFrom(c, o) ==
    SelectSeq(consumed[c],
              LAMBDA e : e.message # None /\ records[e.message].chan = o)

\* C12: __aiter__ on a channel not in iterator form returns a new channel
\* in iterator form and leaves the original as it was; on a channel in
\* iterator form it returns the channel itself.  A clone of a channel that
\* shares its queue refers to the original's queue in every state; a clone
\* of a channel that does not share has a queue no other channel refers to,
\* and receives nothing that was delivered on the original.
C12_AiterClone ==
    /\ \A i \in 1..Len(calls) :
          calls[i].op = "aiter" =>
              LET c == calls[i].chan
                  it == calls[i].out
              IN  IF chan[c].is_iterator
                  THEN it = c
                  ELSE /\ it # c
                       /\ it \in Clones
                       /\ parent[it] = c
                       /\ chan[it].is_iterator
    /\ \A k \in Clones :
          IF chan[parent[k]].clone_shares_queue
          THEN qref[k] = qref[parent[k]]
          ELSE /\ \A j \in DOMAIN chan \ {k} : qref[j] # qref[k]
               /\ ReceivedFrom(k, parent[k]) = <<>>

\* an Event delivered on the original has been received by advancing its
\* clone
C12_Witness ==
    \E k \in Clones :
        /\ chan[parent[k]].clone_shares_queue
        /\ ~chan[parent[k]].is_iterator
        /\ ReceivedFrom(k, parent[k]) # <<>>

Pubs == 1..Len(pubs)

\* the Event publish_message builds for the i-th published message
PubEvent(i) == create_event(pubs[i].message.key, pubs[i].message.value, None)

\* the calls suspended in the queue's put on behalf of the i-th publish
PubPutters(i) ==
    LET c == pubs[i].message.chan
    IN  {j \in 1..Len(putters[c]) :
            putters[c][j].kind = "publish" /\ putters[c][j].pub = i}

\* the Events on channel c that some publish_message built
IsPubEvent(e) == e.message = None /\ e.key # None
PubEnqueued(c) == SelectSeq(consumed[c] \o queue[c], IsPubEvent)

\* the i-th publish is suspended in the queue's put: its one Event waits,
\* the future is unresolved, the callback has not run
PubWaiting(i) ==
    /\ pubs[i].st = "pending"
    /\ Cardinality(PubPutters(i)) = 1
    /\ \A j \in PubPutters(i) :
          putters[pubs[i].message.chan][j].item = PubEvent(i)
    /\ pubs[i].result = <<>>
    /\ pubs[i].cbcalls = 0

\* the i-th publish has enqueued its Event, resolved the future with the
\* all-null record metadata and called the callback, if any, once
PubResolved(i) ==
    /\ pubs[i].st = "done"
    /\ PubPutters(i) = {}
    /\ pubs[i].result = <<None, None, None, None>>
    /\ pubs[i].cbcalls = IF pubs[i].message.callback THEN 1 ELSE 0

\* the i-th publish was refused by put: nothing enqueued, nothing resolved
PubRefused(i) ==
    /\ pubs[i].st = "error"
    /\ ~PutLegal(pubs[i].message.chan)
    /\ PubPutters(i) = {}
    /\ pubs[i].result = <<>>
    /\ pubs[i].cbcalls = 0

\* one Event enqueued per resolved future, with the message's key and value
PubCount ==
    \A c \in Chans :
        /\ Len(PubEnqueued(c)) =
               Cardinality({i \in Pubs : pubs[i].message.chan = c
                                         /\ pubs[i].st = "done"})
        /\ \A n \in 1..Len(PubEnqueued(c)) :
               \E i \in Pubs : /\ pubs[i].message.chan = c
                                /\ pubs[i].st = "done"
                                /\ PubEnqueued(c)[n] = PubEvent(i)

\* C13 as stated: every publish_message enqueues exactly one Event with the
\* message's key and value on the channel's queue, then resolves the future
\* with all-null record metadata, then calls the callback, if any, once; the
\* future is never resolved before the enqueue has completed.
C13_PublishAlwaysEnqueues ==
    /\ \A i \in Pubs : PubWaiting(i) \/ PubResolved(i)
    /\ PubCount

\* C13, amended: the same on a channel on which put is legal (iterator form
\* or sharing its queue); on any other channel publish_message ends with
\* put's usage error, enqueues nothing and leaves the future unresolved and
\* the callback uncalled.
C13_PublishThenResolve ==
    /\ \A i \in Pubs :
          IF PutLegal(pubs[i].message.chan)
          THEN PubWaiting(i) \/ PubResolved(i)
          ELSE PubRefused(i)
    /\ PubCount

\* a publish with a callback waited for room in the queue and then
\* enqueued, resolved and called back
C13_Witness ==
    \E i \in Pubs :
        /\ pubs[i].message.callback
        /\ PubResolved(i)
        /\ i > 1
        /\ \E c \in Chans : /\ Len(PubEnqueued(c)) >= 2
                              /\ ~chan[c].queue_given

DecodeStep == Len(decoded') = Len(decoded) + 1

\* what deliver enqueued, or waits to enqueue, for record r
DeliverEnqueued(r) ==
    SelectSeq(InFlight(records[r].chan), LAMBDA e : e.message = r)

\* C14: decode of a record returns an Event exactly when deliver of the
\* same record enqueued one; the Event decode returns is equal to the one
\* deliver enqueued, its key and value are the deserializers' outputs for
\* the record's bytes and it refers to the record; decode leaves the queue,
\* the calls waiting at the queue and what was consumed as they were.
C14_DecodeAsDeliver ==
    [][DecodeStep =>
          LET d == decoded'[Len(decoded')]
              r == d.msg
          IN  /\ d.ret # NoEvent <=> DeliverEnqueued(r) # <<>>
              /\ d.ret # NoEvent =>
                    /\ DeliverEnqueued(r) = <<d.ret>>
                    /\ d.ret.key = loads_key(records[r].key)
                    /\ d.ret.value = loads_value(records[r].value)
                    /\ d.ret.message = r
              /\ queue' = queue
              /\ putters' = putters
              /\ consumed' = consumed]_vars

\* decode has returned an Event for one record and nothing for another,
\* while the queue held an Event
C14_Witness ==
    /\ \E i \in 1..Len(decoded) : decoded[i].ret # NoEvent
    /\ \E i \in 1..Len(decoded) :
          /\ decoded[i].ret = NoEvent
          /\ ~KeyMalformed(records[decoded[i].msg].key)
    /\ \E c \in Chans : queue[c] # <<>>

TableStep == Len(tlog') = Len(tlog) + 1

LastTableCall == tlog'[Len(tlog')]

\* the calls before the n-th that set or deleted key k
MutationsBefore(n, k) ==
    {i \in 1..(n - 1) : tlog[i].key = k /\ tlog[i].op \in {"set", "del"}}

Last(S) == CHOOSE i \in S : \A j \in S : j <= i

\* C15: a set(k, v) appends exactly one changelog entry, (k, v), and a
\* del(k) appends exactly one, the tombstone (k, null); the entry is
\* appended while the table still shows the mapping from before the call,
\* and the call then shows the mutation; a get appends nothing, and a get of
\* a key whose last mutation was set(k, v) returns v.
C15_WriteAheadChangelog ==
    [][TableStep =>
          LET call == LastTableCall
              k == call.key
              muts == MutationsBefore(Len(tlog'), k)
          IN  /\ call.op = "set" =>
                    /\ changelog' = Append(changelog,
                                           [key |-> dumps_key(k),
                                            value |-> dumps_value(call.value),
                                            visible |-> tdata])
                    /\ k \in DOMAIN tdata'
                    /\ tdata'[k] = call.value
                    /\ \A j \in DOMAIN tdata' \ {k} :
                          j \in DOMAIN tdata /\ tdata'[j] = tdata[j]
              /\ call.op = "del" =>
                    /\ changelog' = Append(changelog,
                                           [key |-> dumps_key(k),
                                            value |-> None,
                                            visible |-> tdata])
                    /\ k \notin DOMAIN tdata'
              /\ call.op = "get" =>
                    /\ changelog' = changelog
                    /\ (muts # {} /\ tlog[Last(muts)].op = "set") =>
                          /\ ~call.raised
                          /\ call.ret = tlog[Last(muts)].value
         ]_vars

\* a key was set, deleted and set again to another value, which a get
\* would return; the changelog holds the three entries
C15_Witness ==
    /\ Len(tlog) >= 3
    /\ Len(changelog) >= 3
    /\ \E k \in TKeys :
          /\ tlog[1].op = "set" /\ tlog[1].key = k
          /\ tlog[2].op = "del" /\ tlog[2].key = k /\ ~tlog[2].raised
          /\ tlog[3].op = "set" /\ tlog[3].key = k
          /\ tlog[3].value # tlog[1].value
          /\ changelog[2].value = None
          /\ tdata[k] = tlog[3].value

\* C16: after set and del calls on a table that started empty, none of
\* which raised, replaying the changelog, in append order, into a fresh
\* Store with apply_changelog_batch yields the mapping the table shows: the
\* same keys with the same values, deleted keys absent.
C16_ReplayReconstructs ==
    (\A i \in 1..Len(tlog) : ~tlog[i].raised)
        => apply_changelog_batch(EmptyMap, changelog) = tdata

ApplyStep == batches'.applied = batches.applied + 1

\* the entries of batch b for key k
EntriesFor(b, k) == {i \in 1..Len(b) : to_key(b[i].key) = k}

\* C17: apply_changelog_batch stores, for every key that has an entry in
\* the batch, the converted value of the key's last entry under the
\* converted key, and leaves every other key as it was; applying the same
\* batch again changes nothing.
C17_LastWriteWins ==
    [][ApplyStep =>
          LET b == batches.pending
          IN  /\ \A k \in DOMAIN store \cup DOMAIN store' \cup TKeys :
                    IF EntriesFor(b, k) # {}
                    THEN /\ k \in DOMAIN store'
                         /\ store'[k] = to_value(b[Last(EntriesFor(b, k))].value)
                    ELSE /\ k \in DOMAIN store' <=> k \in DOMAIN store
                         /\ k \in DOMAIN store => store'[k] = store[k]
              /\ apply_changelog_batch(store', b) = store'
              /\ (~batches.fresh /\ batches.applied > 0) => store' = store
         ]_vars

\* the batch [(k,1), (k,2), (j,3)] was applied twice to a Store that was
\* empty: the Store holds {k: 2, j: 3}
C17_Witness ==
    /\ batches.pending = <<[key |-> dumps_key(1), value |-> dumps_value(1)],
                           [key |-> dumps_key(1), value |-> dumps_value(2)],
                           [key |-> dumps_key(2), value |-> dumps_value(3)]>>
    /\ batches.applied = 2
    /\ ~batches.fresh
    /\ store = (1 :> 2) @@ (2 :> 3)

\* C18: a get of a key the table does not hold returns the value the
\* default factory constructs when the table has one and raises the
\* missing-key error otherwise; the mapping, the changelog and the TTL
\* deadlines are as they were.
C18_MissingKey ==
    [][(TableStep /\ LastTableCall.op = "get") =>
          LET call == LastTableCall
          IN  /\ call.key \notin DOMAIN tdata =>
                    IF tcfg.default
                    THEN ~call.raised /\ call.ret = DefaultValue
                    ELSE call.raised
              /\ call.key \in DOMAIN tdata =>
                    ~call.raised /\ call.ret = tdata[call.key]
              /\ tdata' = tdata
              /\ changelog' = changelog
              /\ ttl' = ttl
         ]_vars

\* the last call was a get of a missing key on a table with a default
\* factory and a TTL, which holds another key
C18_Witness ==
    /\ tlog # <<>>
    /\ LET call == tlog[Len(tlog)]
       IN  /\ call.op = "get"
           /\ call.key \notin DOMAIN tdata
           /\ ~call.raised
           /\ call.ret = DefaultValue
    /\ tdata # EmptyMap
    /\ ttl # EmptyMap
    /\ changelog # <<>>

\* the step-aligned bucket starts whose bucket holds timestamp t
AlignedStarts(size, step, t) ==
    {start \in (0 - size)..t :
        /\ start % step = 0
        /\ start <= t
        /\ t < start + size}

\* size / step, rounded up
CeilDiv(a, b) == (a + b - 1) \div b

\* C19: under the window table.hopping(size, step) gives the table, with
\* size a multiple of step, a timestamp belongs to exactly ceil(size/step)
\* buckets: the step-aligned ones with start <= timestamp < start + size.
\* With size 60 and step 20, timestamp 25 belongs to the three buckets
\* starting at -20, 0 and 20.
C19_HoppingBuckets ==
    (asked.kind = "hopping" /\ stamp # <<>> /\ asked.size % asked.step = 0)
        => /\ ranges = AlignedStarts(asked.size, asked.step, stamp[1])
           /\ Cardinality(ranges) = CeilDiv(asked.size, asked.step)
           /\ (asked.size = 60 /\ asked.step = 20 /\ stamp[1] = 25)
                  => ranges = {0 - 20, 0, 20}

C19_Witness ==
    /\ asked.kind = "hopping"
    /\ asked.size = 60
    /\ asked.step = 20
    /\ stamp = <<25>>
    /\ Cardinality(ranges) = 3

\* C20: under the window table.tumbling(size) gives the table, a timestamp
\* belongs to exactly one bucket, the one numbered floor(timestamp/size):
\* bucket b holds the timestamps from b * size up to, not including,
\* (b + 1) * size.  With size 60, timestamps 0 and 59 are in bucket 0 and
\* timestamp 60 is in bucket 1.
C20_TumblingBucket ==
    (asked.kind = "tumbling" /\ stamp # <<>>)
        => /\ Cardinality(ranges) = 1
           /\ \A b \in ranges : /\ b * asked.size <= stamp[1]
                                /\ stamp[1] < (b + 1) * asked.size
           /\ asked.size = 60 =>
                 /\ stamp[1] \in {0, 59} => ranges = {0}
                 /\ stamp[1] = 60 => ranges = {1}

C20_Witness ==
    /\ asked.kind = "tumbling"
    /\ asked.size = 60
    /\ stamp = <<60>>
    /\ ranges = {1}

\* C21: on a channel that is neither in iterator form nor sharing its
\* queue, where put ends with the usage error, a deliver of a decodable
\* record enqueues the record's Event on the channel's queue, or waits at
\* the queue's put with it while the queue is full: it is never refused.
C21_DeliverBypassesPutCheck ==
    [][DeliverStep =>
          LET r == Len(records')
              rec == records'[r]
              c == rec.chan
              ev == create_event(loads_key(rec.key), loads_value(rec.value), r)
          IN  (/\ ~chan[c].is_iterator
               /\ ~chan[c].clone_shares_queue
               /\ ~KeyMalformed(rec.key)
               /\ ~ValueMalformed(rec.value)) =>
                  /\ PutOutcome(c) = "usage_error"
                  /\ IF Len(queue[c]) < MaxSize(c)
                     THEN /\ queue'[c] = Append(queue[c], ev)
                          /\ putters' = putters
                     ELSE /\ queue' = queue
                          /\ putters'[c] = Append(putters[c], DeliverPutter(ev))
         ]_vars

\* on such a channel a put has ended with the usage error and the queue
\* holds the Event of a delivered record
C21_Witness ==
    \E c \in Chans :
        /\ ~chan[c].is_iterator
        /\ ~chan[c].clone_shares_queue
        /\ \E i \in 1..Len(calls) :
              /\ calls[i].op = "put"
              /\ calls[i].chan = c
              /\ calls[i].out = "usage_error"
        /\ \E i \in 1..Len(queue[c]) :
              /\ queue[c][i].message # None
              /\ records[queue[c][i].message].chan = c

====
